---- MODULE Spec2Model ----
(***************************************************************************)
(* vks::Screenshot::save (src/base/VulkanScreenshot.hpp, lines 18-179) as  *)
(* a state machine: one action per statement group of save, the device     *)
(* executing the submitted command buffer one command at a time, and the   *)
(* output file as the sequence of items written to it.                     *)
(* vks::MemoryTracker (lines 204-317) follows, first one call at a time,   *)
(* then called from several threads.                                       *)
(***************************************************************************)
EXTENDS Integers, Sequences, FiniteSets, TLC

(***************************************************************************)
(* Bounds of the model.                                                    *)
(***************************************************************************)
\* widths and heights of the capture request: 1..MaxWidth, 1..MaxHeight
MaxWidth == 2
MaxHeight == 2
\* padding bytes the device may add to a row of the staging image
MaxPad == 1
\* largest byte offset the device may report for the staging subresource
MaxOffset == 1
\* calls of save made one after the other on the same source image
MaxCaptures == 2

\* VkDeviceMemory handles, allocation sizes, and threads calling the tracker
MaxHandles == 2
MaxSize == 2
MaxThreads == 2
\* calls of the tracker made by the threads together
MaxCalls == 3
\* recordAllocation is not called once totalAllocated would pass MaxTotal
MaxTotal == 4
\* VkDeviceSize is an unsigned 64-bit integer; the counters of the tracker are
\* computed modulo DeviceSizeModulus, which stands for 2^64 and is larger
\* than every value the calls within the bounds can add up to
DeviceSizeModulus == 65536

(***************************************************************************)
(* Program constants.                                                      *)
(***************************************************************************)
\* sizeof(unsigned int): `row` is an unsigned int*, row++ advances one pixel
PixelSize == 4
\* the max sample value written into the header
MaxSample == 255

\* the three formats of formatsBGR, and two RGBA-ordered formats
FormatsBGR == {"B8G8R8A8_SRGB", "B8G8R8A8_UNORM", "B8G8R8A8_SNORM"}
Formats == FormatsBGR \cup {"R8G8B8A8_UNORM", "R8G8B8A8_SRGB"}

\* tags passed to recordAllocation; "" is the default argument (line 227)
Tags == {"", "staging"}

\* contents of freshly allocated (never written) device memory
GarbageBytes == {0, 205}

\* nothing executed yet: no barrier has named a wrong old layout, no transfer
\* has run
NoLog ==
    [mismatch |-> FALSE, srcUndefined |-> FALSE, transfers |-> 0,
     xferSrcLayout |-> "-",
     xferDstLayout |-> "-", xferWhilePresenting |-> FALSE]

\* a handle that names no object, and a struct not yet filled in
NullImage ==
    [live |-> FALSE, layout |-> "UNDEFINED", access |-> "NONE", offset |-> 0,
     rowPitch |-> 0, bound |-> FALSE]
NullMemory == [live |-> FALSE, mapped |-> FALSE, bytes |-> <<>>]

VARIABLES
    pc,              \* position of save
    result,          \* "none" until save returns, then "true" or "false"
    srcFormat, width, height,        \* the capture request
    devBlitSrc,      \* optimalTilingFeatures(srcFormat) has BLIT_SRC_BIT
    devBlitDst,      \* linearTilingFeatures(R8G8B8A8_UNORM) has BLIT_DST_BIT
    supportsBlit,
    srcLayout, srcAccess,            \* the source image on the device
    dstImage,        \* the staging image
    dstImageMemory,  \* the staging allocation; bytes[i+1] is its byte i
    copyCmd,         \* commands recorded into the one-shot command buffer
    submitted,       \* command buffers accepted by the queue, in order
    gpuPos,          \* number of commands of the submission already executed
    fence,           \* device has confirmed completion of the submission
    subResourceLayout,
    data, row, y, x, \* the readback pointers (byte offsets into the mapping)
    colorSwizzle,
    file,            \* "closed", "open" or "failed"
    written,         \* items written to the file, in order
    reads,           \* staging byte offsets read by the encode loop, in order
    gpuLog,          \* what the device saw when it executed the commands
    capture,         \* number of the current call of save
    prevResult, prevWritten,         \* result and file of the call before
    presenting       \* the presentation engine is reading the source image

VARIABLES
    serialized,      \* the caller lets one capture return before the next starts
    flight,          \* captures of the same source image the device works on
    allocations,     \* MemoryTracker: the live-allocation map
    totalAllocated,
    peakAllocated,
    taggedAllocations,
    mutex,           \* 0 when free, else the thread that holds it
    thread,          \* the call each thread is in, and where in it
    lastCall,        \* the last completed call of a MemoryTracker mutator
    before,          \* the tracker's state, and lastCall, before that call
    calls            \* calls of the tracker the threads have made

flightVars == <<serialized, flight>>
trackerVars == <<allocations, totalAllocated, peakAllocated, taggedAllocations,
                 mutex, thread, lastCall, before, calls>>

vars == <<pc, result, srcFormat, width, height, devBlitSrc, devBlitDst,
          supportsBlit, srcLayout, srcAccess, dstImage, dstImageMemory,
          copyCmd, submitted, gpuPos, fence, subResourceLayout, data, row,
          y, x, colorSwizzle, file, written, reads, gpuLog, capture,
          prevResult, prevWritten, presenting, flightVars, trackerVars>>

\* what no step of a call of save changes: the request, the earlier calls,
\* the presentation engine, other captures, the allocation tracker (save does
\* not notify it)
callVars == <<capture, prevResult, prevWritten>>
reqVars == <<srcFormat, width, height, devBlitSrc, devBlitDst, callVars,
             presenting, flightVars, trackerVars>>
srcVars == <<srcLayout, srcAccess>>
resVars == <<dstImage, dstImageMemory>>
gpuVars == <<submitted, gpuPos, fence, gpuLog>>
readVars == <<subResourceLayout, data, row, y, x, colorSwizzle>>
fileVars == <<file, written, reads>>

(***************************************************************************)
(* The source frame.  SrcByte(yy, xx, c) is byte c (in memory order) of    *)
(* the texel at row yy, column xx of the source image; the bytes of one    *)
(* frame are pairwise different, so that a byte of the output identifies   *)
(* the byte it was read from.                                              *)
(***************************************************************************)
SrcByte(yy, xx, c) == (17 + 29 * (PixelSize * (yy * width + xx) + c)) % 256

\* The state at the call of save: any request within the bounds, any pair of
\* query answers, and the source image as the presentation engine holds it
\* (presentable layout, generic memory read), which is the state the first
\* source barrier (lines 80-85) declares as the old one.
SaveInit ==
    /\ pc = "probe"
    /\ result = "none"
    /\ srcFormat \in Formats
    /\ width \in 1..MaxWidth
    /\ height \in 1..MaxHeight
    /\ devBlitSrc \in BOOLEAN
    /\ devBlitDst \in BOOLEAN
    /\ supportsBlit = TRUE
    /\ srcLayout = "PRESENT_SRC_KHR"
    /\ srcAccess = "MEMORY_READ"
    /\ dstImage = NullImage
    /\ dstImageMemory = NullMemory
    /\ copyCmd = <<>>
    /\ submitted = <<>>
    /\ gpuPos = 0
    /\ fence = FALSE
    /\ subResourceLayout = [offset |-> 0, rowPitch |-> 0]
    /\ data = 0
    /\ row = 0
    /\ y = 0
    /\ x = 0
    /\ colorSwizzle = FALSE
    /\ file = "closed"
    /\ written = <<>>
    /\ reads = <<>>
    /\ gpuLog = NoLog
    /\ capture = 1
    /\ prevResult = "none"
    /\ prevWritten = <<>>
    /\ presenting = FALSE

\* captures of the same source image: none started
IdleFlight == [state |-> "idle", pos |-> 0, dstLayout |-> "UNDEFINED"]
NoFlights == flight = [i \in 1..MaxCaptures |-> IdleFlight]

\* MemoryTracker as constructed (lines 207-213, 216): empty maps, counters 0;
\* the mutex free and no thread inside a call
Handles == 1..MaxHandles
Sizes == 1..MaxSize
Threads == 1..MaxThreads
NoAllocation == [live |-> FALSE, size |-> 0, tag |-> ""]
NoTagEntry == [present |-> FALSE, bytes |-> 0]
IdleThread == [pc |-> "idle", memory |-> 1, size |-> 0, tag |-> "", seen |-> <<>>]
NoCall == [op |-> "none", memory |-> 1, found |-> FALSE]
TrackerState ==
    [allocations |-> allocations, totalAllocated |-> totalAllocated,
     peakAllocated |-> peakAllocated, taggedAllocations |-> taggedAllocations]
TrackerInit ==
    /\ allocations = [h \in Handles |-> NoAllocation]
    /\ totalAllocated = 0
    /\ peakAllocated = 0
    /\ taggedAllocations = [t \in Tags \ {""} |-> NoTagEntry]
    /\ mutex = 0
    /\ thread = [t \in Threads |-> IdleThread]
    /\ lastCall = NoCall
    /\ before = [state |-> TrackerState, call |-> NoCall]
    /\ calls = 0

Init ==
    /\ SaveInit
    /\ serialized = TRUE
    /\ NoFlights
    /\ TrackerInit

(***************************************************************************)
(* Stage 1: capability probe (lines 29-40).                                *)
(***************************************************************************)
\* a probe that keeps only the answer of the second query
SupportsBlit_LastQueryOnly(optimalHasBlitSrc, linearHasBlitDst) ==
    linearHasBlitDst

SupportsBlit(optimalHasBlitSrc, linearHasBlitDst) ==
    optimalHasBlitSrc /\ linearHasBlitDst

Probe ==
    /\ pc = "probe"
    /\ supportsBlit' = SupportsBlit(devBlitSrc, devBlitDst)
    /\ pc' = "createImage"
    /\ UNCHANGED <<result, reqVars, srcVars, resVars, copyCmd, gpuVars,
                   readVars, fileVars>>

(***************************************************************************)
(* VK_CHECK_RESULT on a failed call: the capture ends at once; no later    *)
(* statement of save runs and save returns no boolean (its only return     *)
(* statements are lines 146 and 178).                                      *)
(***************************************************************************)
FatalAbort ==
    /\ pc' = "aborted"
    /\ UNCHANGED result

(***************************************************************************)
(* Stage 2: staging image and memory (lines 42-69).                        *)
(* The device fixes the subresource layout of the linear image when it     *)
(* creates it: an offset and a row pitch of at least width * 4.            *)
(***************************************************************************)
CreateImageOk ==
    /\ pc = "createImage"
    /\ \E off \in 0..MaxOffset, pad \in 0..MaxPad :
         dstImage' = [live |-> TRUE, layout |-> "UNDEFINED", access |-> "NONE",
                      offset |-> off, rowPitch |-> width * PixelSize + pad,
                      bound |-> FALSE]
    /\ pc' = "allocateMemory"
    /\ UNCHANGED <<result, reqVars, supportsBlit, srcVars, dstImageMemory,
                   copyCmd, gpuVars, readVars, fileVars>>

CreateImageFail ==
    /\ pc = "createImage"
    /\ FatalAbort
    /\ UNCHANGED <<reqVars, supportsBlit, srcVars, resVars, copyCmd, gpuVars,
                   readVars, fileVars>>

\* memRequirements.size of the staging image (lines 63-64)
MemorySize(img) == img.offset + height * img.rowPitch

AllocateMemoryOk ==
    /\ pc = "allocateMemory"
    /\ \E g \in GarbageBytes :
         dstImageMemory' = [live |-> TRUE, mapped |-> FALSE,
                            bytes |-> [i \in 1..MemorySize(dstImage) |-> g]]
    /\ pc' = "bindImageMemory"
    /\ UNCHANGED <<result, reqVars, supportsBlit, srcVars, dstImage, copyCmd,
                   gpuVars, readVars, fileVars>>

AllocateMemoryFail ==
    /\ pc = "allocateMemory"
    /\ FatalAbort
    /\ UNCHANGED <<reqVars, supportsBlit, srcVars, resVars, copyCmd, gpuVars,
                   readVars, fileVars>>

BindImageMemoryOk ==
    /\ pc = "bindImageMemory"
    /\ dstImage' = [dstImage EXCEPT !.bound = TRUE]
    /\ pc' = "createCommandBuffer"
    /\ UNCHANGED <<result, reqVars, supportsBlit, srcVars, dstImageMemory,
                   copyCmd, gpuVars, readVars, fileVars>>

BindImageMemoryFail ==
    /\ pc = "bindImageMemory"
    /\ FatalAbort
    /\ UNCHANGED <<reqVars, supportsBlit, srcVars, resVars, copyCmd, gpuVars,
                   readVars, fileVars>>

(***************************************************************************)
(* Stage 3: the one-shot command buffer (lines 71-131).                    *)
(***************************************************************************)
\* vks::tools::insertImageMemoryBarrier: one image memory barrier command
\* (both stage masks are VK_PIPELINE_STAGE_TRANSFER_BIT at every call site)
ImageMemoryBarrier(image, srcAccessMask, dstAccessMask, oldLayout, newLayout) ==
    [op |-> "barrier", image |-> image,
     srcAccessMask |-> srcAccessMask, dstAccessMask |-> dstAccessMask,
     oldLayout |-> oldLayout, newLayout |-> newLayout,
     extentW |-> 0, extentH |-> 0]

\* vkCmdBlitImage / vkCmdCopyImage of the full rectangle, source in
\* TRANSFER_SRC_OPTIMAL, destination in TRANSFER_DST_OPTIMAL
TransferCommand(op, w, h) ==
    [op |-> op, image |-> "src->dst",
     srcAccessMask |-> "-", dstAccessMask |-> "-",
     oldLayout |-> "TRANSFER_SRC_OPTIMAL", newLayout |-> "TRANSFER_DST_OPTIMAL",
     extentW |-> w, extentH |-> h]

\* lines 73-78
\* a first barrier that names GENERAL as the staging image's old layout
DstBarrierIn_FromGeneral ==
    ImageMemoryBarrier("dst", "NONE", "TRANSFER_WRITE",
                       "GENERAL", "TRANSFER_DST_OPTIMAL")
DstBarrierIn ==
    ImageMemoryBarrier("dst", "NONE", "TRANSFER_WRITE",
                       "UNDEFINED", "TRANSFER_DST_OPTIMAL")
\* lines 80-85
SrcBarrierIn ==
    ImageMemoryBarrier("src", "MEMORY_READ", "TRANSFER_READ",
                       "PRESENT_SRC_KHR", "TRANSFER_SRC_OPTIMAL")
\* lines 87-115
Transfer(blit, w, h) ==
    IF blit THEN TransferCommand("blit", w, h) ELSE TransferCommand("copy", w, h)
\* lines 117-122
DstBarrierOut ==
    ImageMemoryBarrier("dst", "TRANSFER_WRITE", "MEMORY_READ",
                       "TRANSFER_DST_OPTIMAL", "GENERAL")
\* a final barrier that leaves the source image in the transfer layout
SrcBarrierOut_NoRestore ==
    ImageMemoryBarrier("src", "TRANSFER_READ", "MEMORY_READ",
                       "TRANSFER_SRC_OPTIMAL", "TRANSFER_SRC_OPTIMAL")
\* a final barrier that hands the source image back in the general layout
SrcBarrierOut_ToGeneral ==
    ImageMemoryBarrier("src", "TRANSFER_READ", "MEMORY_READ",
                       "TRANSFER_SRC_OPTIMAL", "GENERAL")
\* lines 124-129
SrcBarrierOut ==
    ImageMemoryBarrier("src", "TRANSFER_READ", "MEMORY_READ",
                       "TRANSFER_SRC_OPTIMAL", "PRESENT_SRC_KHR")

\* createCommandBuffer(VK_COMMAND_BUFFER_LEVEL_PRIMARY, true): a fresh command
\* buffer, already begun
CreateCommandBuffer ==
    /\ pc = "createCommandBuffer"
    /\ copyCmd' = <<>>
    /\ pc' = "recordDstBarrierIn"
    /\ UNCHANGED <<result, reqVars, supportsBlit, srcVars, resVars, gpuVars,
                   readVars, fileVars>>

Record(at, cmd, next) ==
    /\ pc = at
    /\ copyCmd' = Append(copyCmd, cmd)
    /\ pc' = next
    /\ UNCHANGED <<result, reqVars, supportsBlit, srcVars, resVars, gpuVars,
                   readVars, fileVars>>

RecordDstBarrierIn == Record("recordDstBarrierIn", DstBarrierIn, "recordSrcBarrierIn")
\* save without the source image's barrier to TRANSFER_SRC_OPTIMAL
RecordSrcBarrierIn_Skipped ==
    /\ pc = "recordSrcBarrierIn"
    /\ pc' = "recordTransfer"
    /\ UNCHANGED <<result, reqVars, supportsBlit, srcVars, resVars, copyCmd,
                   gpuVars, readVars, fileVars>>
RecordSrcBarrierIn == Record("recordSrcBarrierIn", SrcBarrierIn, "recordTransfer")
RecordTransfer ==
    Record("recordTransfer", Transfer(supportsBlit, width, height),
           "recordDstBarrierOut")
\* save without the staging image's barrier to GENERAL
RecordDstBarrierOut_Skipped ==
    /\ pc = "recordDstBarrierOut"
    /\ pc' = "recordSrcBarrierOut"
    /\ UNCHANGED <<result, reqVars, supportsBlit, srcVars, resVars, copyCmd,
                   gpuVars, readVars, fileVars>>
RecordDstBarrierOut == Record("recordDstBarrierOut", DstBarrierOut, "recordSrcBarrierOut")
\* save going on to the readback without flushing the command buffer
RecordSrcBarrierOut_NoFlush ==
    Record("recordSrcBarrierOut", SrcBarrierOut, "getSubresourceLayout")
RecordSrcBarrierOut == Record("recordSrcBarrierOut", SrcBarrierOut, "flush")

(***************************************************************************)
(* vulkanDevice->flushCommandBuffer(copyCmd, queue), line 131: end the     *)
(* command buffer, submit it once on the queue, block until the fence of   *)
(* the submission is signalled.  A rejected submission is fatal.           *)
(***************************************************************************)
FlushSubmitOk ==
    /\ pc = "flush"
    /\ submitted' = Append(submitted, copyCmd)
    /\ pc' = "waitFence"
    /\ UNCHANGED <<result, reqVars, supportsBlit, srcVars, resVars, copyCmd,
                   gpuPos, fence, gpuLog, readVars, fileVars>>

FlushSubmitFail ==
    /\ pc = "flush"
    /\ FatalAbort
    /\ UNCHANGED <<reqVars, supportsBlit, srcVars, resVars, copyCmd, gpuVars,
                   readVars, fileVars>>

\* a flush that returns without waiting for the fence
FlushReturn_NoWait ==
    /\ pc = "waitFence"
    /\ pc' = "getSubresourceLayout"
    /\ UNCHANGED <<result, reqVars, supportsBlit, srcVars, resVars, copyCmd,
                   gpuVars, readVars, fileVars>>

FlushReturn ==
    /\ pc = "waitFence"
    /\ fence
    /\ pc' = "getSubresourceLayout"
    /\ UNCHANGED <<result, reqVars, supportsBlit, srcVars, resVars, copyCmd,
                   gpuVars, readVars, fileVars>>

(***************************************************************************)
(* The device: executes the commands of the submission in order, then      *)
(* signals the fence.                                                      *)
(***************************************************************************)
\* sRGB-encoded byte -> linear byte (UNORM), for the colour channels of an
\* _SRGB format read by a blit
SrgbToLinear ==
    <<0, 0, 0, 0, 0, 0, 0, 1, 1, 1, 1, 1, 1, 1, 1, 1,
      1, 1, 2, 2, 2, 2, 2, 2, 2, 2, 3, 3, 3, 3, 3, 3,
      4, 4, 4, 4, 4, 5, 5, 5, 5, 6, 6, 6, 6, 7, 7, 7,
      8, 8, 8, 8, 9, 9, 9, 10, 10, 10, 11, 11, 12, 12, 12, 13,
      13, 13, 14, 14, 15, 15, 16, 16, 17, 17, 17, 18, 18, 19, 19, 20,
      20, 21, 22, 22, 23, 23, 24, 24, 25, 25, 26, 27, 27, 28, 29, 29,
      30, 30, 31, 32, 32, 33, 34, 35, 35, 36, 37, 37, 38, 39, 40, 41,
      41, 42, 43, 44, 45, 45, 46, 47, 48, 49, 50, 51, 51, 52, 53, 54,
      55, 56, 57, 58, 59, 60, 61, 62, 63, 64, 65, 66, 67, 68, 69, 70,
      71, 72, 73, 74, 76, 77, 78, 79, 80, 81, 82, 84, 85, 86, 87, 88,
      90, 91, 92, 93, 95, 96, 97, 99, 100, 101, 103, 104, 105, 107, 108, 109,
      111, 112, 114, 115, 116, 118, 119, 121, 122, 124, 125, 127, 128, 130, 131, 133,
      134, 136, 138, 139, 141, 142, 144, 146, 147, 149, 151, 152, 154, 156, 157, 159,
      161, 163, 164, 166, 168, 170, 171, 173, 175, 177, 179, 181, 183, 184, 186, 188,
      190, 192, 194, 196, 198, 200, 202, 204, 206, 208, 210, 212, 214, 216, 218, 220,
      222, 224, 226, 229, 231, 233, 235, 237, 239, 242, 244, 246, 248, 250, 253, 255>>

\* a byte of channel ch (0 = R, 1 = G, 2 = B, 3 = A) of a texel of format
\* fmt, converted to the 8-bit UNORM value a blit to R8G8B8A8_UNORM stores
ConvertChannel(fmt, ch, v) ==
    CASE fmt \in {"B8G8R8A8_UNORM", "R8G8B8A8_UNORM"} -> v
      [] fmt \in {"B8G8R8A8_SRGB", "R8G8B8A8_SRGB"} ->
            IF ch = 3 THEN v ELSE SrgbToLinear[v + 1]
      [] fmt = "B8G8R8A8_SNORM" ->
            LET s == IF v < 128 THEN v ELSE v - 256
            IN  IF s <= 0 THEN 0 ELSE (s * 255 + 63) \div 127

\* the byte index, in memory order, of channel ch in a texel of format fmt
ChannelIndex(fmt, ch) ==
    IF fmt \in FormatsBGR /\ ch \in {0, 2} THEN 2 - ch ELSE ch

\* vkCmdBlitImage to R8G8B8A8_UNORM: byte c of the staging texel (yy, xx)
BlitByte(fmt, yy, xx, c) ==
    ConvertChannel(fmt, c, SrcByte(yy, xx, ChannelIndex(fmt, c)))

\* vkCmdCopyImage: byte c of the staging texel (yy, xx), copied verbatim
CopyByte(yy, xx, c) == SrcByte(yy, xx, c)

\* the staging memory after the transfer op has written the w x h rectangle
\* of image img (linear tiling: texel (yy, xx) starts at byte
\* offset + yy * rowPitch + xx * 4); bytes outside the texels are untouched
TransferBytes(op, img, bytes, w, h) ==
    [i \in DOMAIN bytes |->
        LET rel == (i - 1) - img.offset
            yy == rel \div img.rowPitch
            rem == rel % img.rowPitch
            xx == rem \div PixelSize
            c == rem % PixelSize
        IN  IF rel >= 0 /\ yy < h /\ rem < w * PixelSize
            THEN IF op = "blit" THEN BlitByte(srcFormat, yy, xx, c)
                                ELSE CopyByte(yy, xx, c)
            ELSE bytes[i]]

\* the texels of img overwritten by g
UndefinedBytes(img, bytes, w, h, g) ==
    [i \in DOMAIN bytes |->
        LET rel == (i - 1) - img.offset
        IN  IF rel >= 0 /\ rel \div img.rowPitch < h
                        /\ rel % img.rowPitch < w * PixelSize
            THEN g ELSE bytes[i]]

\* what the staging memory may hold after the transfer cmd: the transferred
\* frame; or, when a barrier on the source image named a layout the image
\* was not in (its contents are then undefined), anything
TransferOutcomes(cmd, img, bytes, srcUndefined) ==
    {TransferBytes(cmd.op, img, bytes, cmd.extentW, cmd.extentH)}
    \cup (IF srcUndefined
          THEN {UndefinedBytes(img, bytes, cmd.extentW, cmd.extentH, g) :
                    g \in GarbageBytes}
          ELSE {})

\* the layout the device holds the image of cmd in
ActualLayout(cmd) == IF cmd.image = "src" THEN srcLayout ELSE dstImage.layout

\* a barrier names the right old layout when it names the layout the image is
\* in (UNDEFINED as old layout discards the contents and fits any layout)
OldLayoutMatches(cmd, actual) ==
    cmd.oldLayout = actual \/ cmd.oldLayout = "UNDEFINED"

\* the log after the device has executed cmd
Logged(log, cmd) ==
    IF cmd.op = "barrier"
    THEN [log EXCEPT
            !.mismatch = @ \/ ~OldLayoutMatches(cmd, ActualLayout(cmd)),
            !.srcUndefined =
                @ \/ (cmd.image = "src"
                        /\ ~OldLayoutMatches(cmd, ActualLayout(cmd)))]
    ELSE [log EXCEPT !.transfers = @ + 1,
                     !.xferSrcLayout = srcLayout,
                     !.xferDstLayout = dstImage.layout,
                     !.xferWhilePresenting = presenting]

\* the layout transition of the source image away from the presentable
\* layout waits for the presentation engine's read (first access scope
\* MEMORY_READ)
GpuExecute ==
    /\ Len(submitted) > 0
    /\ gpuPos < Len(submitted[1])
    /\ LET cmd == submitted[1][gpuPos + 1]
       IN  /\ (cmd.op = "barrier" /\ cmd.image = "src"
                 /\ srcLayout = "PRESENT_SRC_KHR") => ~presenting
           /\ IF cmd.op = "barrier" /\ cmd.image = "src"
              THEN /\ srcLayout' = cmd.newLayout
                   /\ srcAccess' = cmd.dstAccessMask
              ELSE UNCHANGED srcVars
           /\ IF cmd.op = "barrier" /\ cmd.image = "dst"
              THEN dstImage' = [dstImage EXCEPT !.layout = cmd.newLayout,
                                                !.access = cmd.dstAccessMask]
              ELSE UNCHANGED dstImage
           /\ IF cmd.op \in {"blit", "copy"}
              THEN \E b \in TransferOutcomes(cmd, dstImage, dstImageMemory.bytes,
                                             gpuLog.srcUndefined) :
                      dstImageMemory' = [dstImageMemory EXCEPT !.bytes = b]
              ELSE UNCHANGED dstImageMemory
           /\ gpuLog' = Logged(gpuLog, cmd)
    /\ gpuPos' = gpuPos + 1
    /\ UNCHANGED <<pc, result, reqVars, supportsBlit, copyCmd, submitted, fence,
                   readVars, fileVars>>

GpuSignalFence ==
    /\ Len(submitted) > 0
    /\ gpuPos = Len(submitted[1])
    /\ ~fence
    /\ fence' = TRUE
    /\ UNCHANGED <<pc, result, reqVars, supportsBlit, srcVars, resVars, copyCmd,
                   submitted, gpuPos, gpuLog, readVars, fileVars>>

(***************************************************************************)
(* Stage 4: readback and encode (lines 133-178).                           *)
(***************************************************************************)
\* lines 133-135
GetImageSubresourceLayout ==
    /\ pc = "getSubresourceLayout"
    /\ subResourceLayout' = [offset |-> dstImage.offset,
                             rowPitch |-> dstImage.rowPitch]
    /\ pc' = "mapMemory"
    /\ UNCHANGED <<result, reqVars, supportsBlit, srcVars, resVars, copyCmd,
                   gpuVars, data, row, y, x, colorSwizzle, fileVars>>

\* lines 137-139: data is the byte offset of the pointer into the mapping,
\* whose base (offset 0, VK_WHOLE_SIZE) is byte 0 of the allocation.  The
\* mapping of the host-visible allocation (line 67) is taken to succeed; save
\* does not inspect the result of vkMapMemory.
MappedBase(layout) == 0 + layout.offset

MapMemory ==
    /\ pc = "mapMemory"
    /\ dstImageMemory' = [dstImageMemory EXCEPT !.mapped = TRUE]
    /\ data' = MappedBase(subResourceLayout)
    /\ pc' = "openFile"
    /\ UNCHANGED <<result, reqVars, supportsBlit, srcVars, dstImage, copyCmd,
                   gpuVars, subResourceLayout, row, y, x, colorSwizzle,
                   fileVars>>

\* vkUnmapMemory, vkFreeMemory, vkDestroyImage (lines 143-145 and 173-175)
Unmapped(mem) == [mem EXCEPT !.mapped = FALSE]
Freed(mem) == [mem EXCEPT !.live = FALSE]
Destroyed(img) == [img EXCEPT !.live = FALSE]

ReleaseStaging ==
    /\ dstImageMemory' = Freed(Unmapped(dstImageMemory))
    /\ dstImage' = Destroyed(dstImage)

\* line 141, std::ofstream opened
OpenFileOk ==
    /\ pc = "openFile"
    /\ file' = "open"
    /\ pc' = "writeHeader"
    /\ UNCHANGED <<result, reqVars, supportsBlit, srcVars, resVars, copyCmd,
                   gpuVars, readVars, written, reads>>

\* an early return that forgets the staging memory
OpenFileFail_Leak ==
    /\ pc = "openFile"
    /\ file' = "failed"
    /\ dstImageMemory' = Unmapped(dstImageMemory)
    /\ dstImage' = Destroyed(dstImage)
    /\ result' = "false"
    /\ pc' = "done"
    /\ UNCHANGED <<reqVars, supportsBlit, srcVars, copyCmd, gpuVars, readVars,
                   written, reads>>

\* lines 141-147, std::ofstream not opened
OpenFileFail ==
    /\ pc = "openFile"
    /\ file' = "failed"
    /\ ReleaseStaging
    /\ result' = "false"
    /\ pc' = "done"
    /\ UNCHANGED <<reqVars, supportsBlit, srcVars, copyCmd, gpuVars, readVars,
                   written, reads>>

\* items of the output stream
Text(s) == [tag |-> s, n |-> 0]
Dec(n) == [tag |-> "dec", n |-> n]
Byte(b) == [tag |-> "byte", n |-> b]

\* a header with height written before width
Header_Swapped(w, h) ==
    <<Text("P6\n"), Dec(h), Text("\n"), Dec(w), Text("\n"), Dec(MaxSample),
      Text("\n")>>

\* line 149; a write to the open stream is taken to succeed (save inspects
\* no stream state after is_open)
Header(w, h) ==
    <<Text("P6\n"), Dec(w), Text("\n"), Dec(h), Text("\n"), Dec(MaxSample),
      Text("\n")>>

WriteHeader ==
    /\ pc = "writeHeader"
    /\ written' = written \o Header(width, height)
    /\ pc' = "swizzle"
    /\ UNCHANGED <<result, reqVars, supportsBlit, srcVars, resVars, copyCmd,
                   gpuVars, readVars, file, reads>>

\* a flag computed from the format alone, on either path
ColorSwizzle_AnyPath(blit, fmt) == fmt \in FormatsBGR

\* lines 151-155
ColorSwizzle(blit, fmt) ==
    IF ~blit THEN fmt \in FormatsBGR ELSE FALSE

\* lines 151-157: the flag, and y = 0
ComputeSwizzle ==
    /\ pc = "swizzle"
    /\ colorSwizzle' = ColorSwizzle(supportsBlit, srcFormat)
    /\ y' = 0
    /\ pc' = "rowLoop"
    /\ UNCHANGED <<result, reqVars, supportsBlit, srcVars, resVars, copyCmd,
                   gpuVars, subResourceLayout, data, row, x, fileVars>>

\* lines 157-159: y < height, row = data, x = 0
RowBegin ==
    /\ pc = "rowLoop"
    /\ y < height
    /\ row' = data
    /\ x' = 0
    /\ pc' = "pixelLoop"
    /\ UNCHANGED <<result, reqVars, supportsBlit, srcVars, resVars, copyCmd,
                   gpuVars, subResourceLayout, data, y, colorSwizzle, fileVars>>

\* an encode loop that never swaps the channels
PixelReads_NoSwizzle(swizzle, at) == <<at, at + 1, at + 2>>

\* lines 160-166: the staging byte offsets written out for the pixel at `at`,
\* in the order they are written
PixelReads(swizzle, at) ==
    IF swizzle THEN <<at + 2, at + 1, at>> ELSE <<at, at + 1, at + 2>>

\* the bytes of the mapping at the offsets offs
ReadBytes(mem, offs) == [k \in DOMAIN offs |-> Byte(mem.bytes[offs[k] + 1])]

\* lines 159-167: one pixel, row++
WritePixel ==
    /\ pc = "pixelLoop"
    /\ x < width
    /\ written' = written \o ReadBytes(dstImageMemory, PixelReads(colorSwizzle, row))
    /\ reads' = reads \o PixelReads(colorSwizzle, row)
    /\ row' = row + PixelSize
    /\ x' = x + 1
    /\ UNCHANGED <<pc, result, reqVars, supportsBlit, srcVars, resVars, copyCmd,
                   gpuVars, subResourceLayout, data, y, colorSwizzle, file>>

\* a row advance by the logical row width instead of the reported stride
NextRow_Tight(at, layout) == at + width * PixelSize

\* line 169: the next row starts rowPitch bytes after this one
NextRow(at, layout) == at + layout.rowPitch

\* lines 159, 169, 157: x == width, data += rowPitch, y++
RowEnd ==
    /\ pc = "pixelLoop"
    /\ x >= width
    /\ data' = NextRow(data, subResourceLayout)
    /\ y' = y + 1
    /\ pc' = "rowLoop"
    /\ UNCHANGED <<result, reqVars, supportsBlit, srcVars, resVars, copyCmd,
                   gpuVars, subResourceLayout, row, x, colorSwizzle, fileVars>>

\* lines 157, 171-178: y == height, close, release, return true
Finish ==
    /\ pc = "rowLoop"
    /\ y >= height
    /\ file' = "closed"
    /\ ReleaseStaging
    /\ result' = "true"
    /\ pc' = "done"
    /\ UNCHANGED <<reqVars, supportsBlit, srcVars, copyCmd, gpuVars, readVars,
                   written, reads>>

Next ==
    \/ Probe
    \/ CreateImageOk
    \/ CreateImageFail
    \/ AllocateMemoryOk
    \/ AllocateMemoryFail
    \/ BindImageMemoryOk
    \/ BindImageMemoryFail
    \/ CreateCommandBuffer
    \/ RecordDstBarrierIn
    \/ RecordSrcBarrierIn
    \/ RecordTransfer
    \/ RecordDstBarrierOut
    \/ RecordSrcBarrierOut
    \/ FlushSubmitOk
    \/ FlushSubmitFail
    \/ GpuExecute
    \/ GpuSignalFence
    \/ FlushReturn
    \/ GetImageSubresourceLayout
    \/ MapMemory
    \/ OpenFileOk
    \/ OpenFileFail
    \/ WriteHeader
    \/ ComputeSwizzle
    \/ RowBegin
    \/ WritePixel
    \/ RowEnd
    \/ Finish

Spec == Init /\ [][Next]_vars

(***************************************************************************)
(* Calls of save one after the other: the caller calls save again with the *)
(* same request once the call before has returned.  The source image and   *)
(* the device go on as they are; everything else is local to a call.       *)
(***************************************************************************)
NextCapture ==
    /\ pc = "done"
    /\ capture < MaxCaptures
    /\ capture' = capture + 1
    /\ prevResult' = result
    /\ prevWritten' = written
    /\ pc' = "probe"
    /\ result' = "none"
    /\ supportsBlit' = TRUE
    /\ dstImage' = NullImage
    /\ dstImageMemory' = NullMemory
    /\ copyCmd' = <<>>
    /\ submitted' = <<>>
    /\ gpuPos' = 0
    /\ fence' = FALSE
    /\ subResourceLayout' = [offset |-> 0, rowPitch |-> 0]
    /\ data' = 0
    /\ row' = 0
    /\ y' = 0
    /\ x' = 0
    /\ colorSwizzle' = FALSE
    /\ file' = "closed"
    /\ written' = <<>>
    /\ reads' = <<>>
    /\ UNCHANGED <<srcFormat, width, height, devBlitSrc, devBlitDst, srcVars,
                   gpuLog, presenting, flightVars, trackerVars>>

SerialSpec == Init /\ [][Next \/ NextCapture]_vars

(***************************************************************************)
(* The presentation engine: reads the source image, and starts a read only *)
(* while the image is in the presentable layout.                           *)
(***************************************************************************)
PresentBegin ==
    /\ srcLayout = "PRESENT_SRC_KHR"
    /\ ~presenting
    /\ presenting' = TRUE
    /\ UNCHANGED <<pc, result, srcFormat, width, height, devBlitSrc, devBlitDst,
                   callVars, supportsBlit, srcVars, resVars, copyCmd, gpuVars,
                   readVars, fileVars, flightVars, trackerVars>>

PresentEnd ==
    /\ presenting
    /\ presenting' = FALSE
    /\ UNCHANGED <<pc, result, srcFormat, width, height, devBlitSrc, devBlitDst,
                   callVars, supportsBlit, srcVars, resVars, copyCmd, gpuVars,
                   readVars, fileVars, flightVars, trackerVars>>

\* The steps of save from the fence wait on.  The thread that called save
\* keeps running, so a step of these that stays possible is eventually taken;
\* nothing is assumed of the device, which may never execute or never signal.
HostStep ==
    \/ FlushReturn
    \/ GetImageSubresourceLayout
    \/ MapMemory
    \/ OpenFileOk
    \/ OpenFileFail
    \/ WriteHeader
    \/ ComputeSwizzle
    \/ RowBegin
    \/ WritePixel
    \/ RowEnd
    \/ Finish

LiveSpec == Init /\ [][Next]_vars /\ WF_vars(HostStep)

EngineSpec == Init /\ [][Next \/ PresentBegin \/ PresentEnd]_vars

(***************************************************************************)
(* Several captures of the same source image.  Each call of save records   *)
(* the commands of lines 73-129 into its own command buffer and has its    *)
(* own staging image; the calls share the source image.  `queue` is a      *)
(* parameter of save (line 22), so two calls that are not serialized by    *)
(* the caller may have their command buffers executed by the device in any *)
(* interleaving.  With `serialized`, a call starts only when no other call *)
(* is between its submission and its return.                               *)
(***************************************************************************)
FlightCommands ==
    <<DstBarrierIn, SrcBarrierIn,
      Transfer(SupportsBlit(devBlitSrc, devBlitDst), width, height),
      DstBarrierOut, SrcBarrierOut>>

FlightInit ==
    /\ SaveInit
    /\ serialized \in BOOLEAN
    /\ NoFlights
    /\ TrackerInit

\* what the steps of the flights leave alone
flightFrame ==
    <<pc, result, srcFormat, width, height, devBlitSrc, devBlitDst, callVars,
      presenting, supportsBlit, resVars, copyCmd, submitted, gpuPos, fence,
      readVars, fileVars, serialized, trackerVars>>

\* line 57 (initialLayout UNDEFINED) to line 131 (submission)
FlightSubmit(i) ==
    /\ flight[i].state = "idle"
    /\ serialized => \A j \in DOMAIN flight : flight[j].state # "submitted"
    /\ flight' = [flight EXCEPT ![i].state = "submitted"]
    /\ UNCHANGED <<flightFrame, srcVars, gpuLog>>

FlightActualLayout(i, cmd) ==
    IF cmd.image = "src" THEN srcLayout ELSE flight[i].dstLayout

FlightLogged(log, i, cmd) ==
    IF cmd.op = "barrier"
    THEN [log EXCEPT
            !.mismatch =
                @ \/ ~OldLayoutMatches(cmd, FlightActualLayout(i, cmd)),
            !.srcUndefined =
                @ \/ (cmd.image = "src"
                        /\ ~OldLayoutMatches(cmd, FlightActualLayout(i, cmd)))]
    ELSE [log EXCEPT !.transfers = @ + 1,
                     !.xferSrcLayout = srcLayout,
                     !.xferDstLayout = flight[i].dstLayout,
                     !.xferWhilePresenting = presenting]

\* the device executes the next command of flight i
FlightExecute(i) ==
    /\ flight[i].state = "submitted"
    /\ flight[i].pos < Len(FlightCommands)
    /\ LET cmd == FlightCommands[flight[i].pos + 1]
       IN  /\ IF cmd.op = "barrier" /\ cmd.image = "src"
              THEN /\ srcLayout' = cmd.newLayout
                   /\ srcAccess' = cmd.dstAccessMask
              ELSE UNCHANGED srcVars
           /\ flight' =
                [flight EXCEPT
                   ![i].pos = @ + 1,
                   ![i].dstLayout =
                       IF cmd.op = "barrier" /\ cmd.image = "dst"
                       THEN cmd.newLayout ELSE @]
           /\ gpuLog' = FlightLogged(gpuLog, i, cmd)
    /\ UNCHANGED flightFrame

\* the fence of flight i is signalled and its call of save returns
FlightReturn(i) ==
    /\ flight[i].state = "submitted"
    /\ flight[i].pos = Len(FlightCommands)
    /\ flight' = [flight EXCEPT ![i].state = "returned"]
    /\ UNCHANGED <<flightFrame, srcVars, gpuLog>>

FlightNext ==
    \E i \in DOMAIN flight :
        \/ FlightSubmit(i)
        \/ FlightExecute(i)
        \/ FlightReturn(i)

FlightSpec == FlightInit /\ [][FlightNext]_vars

(***************************************************************************)
(* vks::MemoryTracker (lines 204-317), one call at a time: each mutator    *)
(* holds the mutex for its whole body (lines 228, 244, 274), so the calls  *)
(* of the mutators take effect one after the other.  memoryTypeIndex is    *)
(* stored in the map entry and never read; it is left out.                 *)
(***************************************************************************)
DeviceSizeAdd(a, b) == (a + b) % DeviceSizeModulus
DeviceSizeSub(a, b) == (a - b + DeviceSizeModulus) % DeviceSizeModulus

\* lines 230-231: operator[] inserts the entry or overwrites the one there
StoreInfo(map, memory, size, tag) ==
    [map EXCEPT ![memory] = [live |-> TRUE, size |-> size, tag |-> tag]]
\* a peak that is never raised
UpdatePeak_Never(total, peak) == peak
\* lines 234-236
UpdatePeak(total, peak) == IF total > peak THEN total ELSE peak
\* lines 238-240: operator[] creates the entry with 0 when absent
AddTag(tagged, tag, size) ==
    IF tag # ""
    THEN [tagged EXCEPT ![tag] = [present |-> TRUE,
                                  bytes |-> DeviceSizeAdd(@.bytes, size)]]
    ELSE tagged
\* lines 249-251
SubTag(tagged, tag, size) ==
    IF tag # ""
    THEN [tagged EXCEPT ![tag] = [present |-> TRUE,
                                  bytes |-> DeviceSizeSub(@.bytes, size)]]
    ELSE tagged
\* an erase that leaves the entry in the map
Erase_Keep(map, memory) == map
\* line 252
Erase(map, memory) == [map EXCEPT ![memory] = NoAllocation]

\* what the calls of the tracker leave alone
trackerFrame ==
    <<pc, result, srcFormat, width, height, devBlitSrc, devBlitDst, callVars,
      presenting, supportsBlit, srcVars, resVars, copyCmd, gpuVars, readVars,
      fileVars, flightVars>>

Called(op, memory, found) ==
    /\ lastCall' = [op |-> op, memory |-> memory, found |-> found]
    /\ before' = [state |-> TrackerState, call |-> lastCall]

\* lines 227-241
recordAllocation(memory, size, tag) ==
    /\ totalAllocated + size <= MaxTotal
    /\ allocations' = StoreInfo(allocations, memory, size, tag)
    /\ totalAllocated' = DeviceSizeAdd(totalAllocated, size)
    /\ peakAllocated' = UpdatePeak(totalAllocated', peakAllocated)
    /\ taggedAllocations' = AddTag(taggedAllocations, tag, size)
    /\ Called("recordAllocation", memory, allocations[memory].live)
    /\ UNCHANGED <<trackerFrame, mutex, thread, calls>>

\* lines 243-254
recordFree(memory) ==
    /\ IF allocations[memory].live
       THEN /\ totalAllocated' =
                  DeviceSizeSub(totalAllocated, allocations[memory].size)
            /\ taggedAllocations' =
                  SubTag(taggedAllocations, allocations[memory].tag,
                         allocations[memory].size)
            /\ allocations' = Erase(allocations, memory)
       ELSE UNCHANGED <<allocations, totalAllocated, taggedAllocations>>
    /\ Called("recordFree", memory, allocations[memory].live)
    /\ UNCHANGED <<trackerFrame, peakAllocated, mutex, thread, calls>>

\* lines 273-279
reset ==
    /\ allocations' = [h \in Handles |-> NoAllocation]
    /\ taggedAllocations' = [t \in Tags \ {""} |-> NoTagEntry]
    /\ totalAllocated' = 0
    /\ peakAllocated' = 0
    /\ Called("reset", 1, FALSE)
    /\ UNCHANGED <<trackerFrame, mutex, thread, calls>>

\* lines 256-271
getTotalAllocated == totalAllocated
getPeakAllocated == peakAllocated
getAllocationByTag(tag) ==
    IF tag # "" /\ taggedAllocations[tag].present
    THEN taggedAllocations[tag].bytes ELSE 0
getAllocationCount == Cardinality({h \in Handles : allocations[h].live})

TrackerNext ==
    \/ \E memory \in Handles, size \in Sizes, tag \in Tags :
          recordAllocation(memory, size, tag)
    \/ \E memory \in Handles : recordFree(memory)
    \/ reset

\* the tracker alone: one capture request, no call of save in progress
TrackerSpecInit ==
    /\ Init
    /\ srcFormat = "B8G8R8A8_UNORM"
    /\ width = 1
    /\ height = 1
    /\ devBlitSrc
    /\ devBlitDst

TrackerSpec == TrackerSpecInit /\ [][TrackerNext]_vars

(***************************************************************************)
(* vks::MemoryTracker called from several threads, one access to a field   *)
(* of the tracker per step.  The mutators take the mutex on entry          *)
(* (std::lock_guard, lines 228, 244, 274) and give it back on return; the  *)
(* const member functions (lines 256-271, 281-316) take no lock.           *)
(***************************************************************************)
Operations ==
    {"recordAllocation", "recordFree", "reset", "getTotalAllocated",
     "getPeakAllocated", "getAllocationByTag", "getAllocationCount",
     "printSummary", "saveToCSV"}

\* the first position of each member function
Entry ==
    [recordAllocation |-> "ra_lock", recordFree |-> "rf_lock",
     reset |-> "rs_lock", getTotalAllocated |-> "gt_total",
     getPeakAllocated |-> "gp_peak", getAllocationByTag |-> "gb_tags",
     getAllocationCount |-> "gc_count", printSummary |-> "ps_total",
     saveToCSV |-> "cs_total"]

\* the position after each position of a member function that is not a
\* branch
After ==
    [ra_lock |-> "ra_store", ra_store |-> "ra_total", ra_total |-> "ra_peak",
     ra_peak |-> "ra_tag", ra_tag |-> "unlock",
     rf_lock |-> "rf_find", rf_total |-> "rf_tag", rf_tag |-> "rf_erase",
     rf_erase |-> "unlock",
     rs_lock |-> "rs_clearMap", rs_clearMap |-> "rs_clearTags",
     rs_clearTags |-> "rs_total", rs_total |-> "rs_peak",
     rs_peak |-> "unlock",
     gt_total |-> "idle", gp_peak |-> "idle", gb_tags |-> "idle",
     gc_count |-> "idle",
     ps_total |-> "ps_peak", ps_peak |-> "ps_count", ps_count |-> "ps_tags",
     ps_tags |-> "idle",
     cs_total |-> "cs_peak", cs_peak |-> "cs_count", cs_count |-> "cs_tags",
     cs_tags |-> "idle"]

\* the field of the tracker the step at a position reads or writes
Field ==
    [ra_store |-> "allocations", ra_total |-> "totalAllocated",
     ra_peak |-> "peakAllocated", ra_tag |-> "taggedAllocations",
     rf_find |-> "allocations", rf_total |-> "totalAllocated",
     rf_tag |-> "taggedAllocations", rf_erase |-> "allocations",
     rs_clearMap |-> "allocations", rs_clearTags |-> "taggedAllocations",
     rs_total |-> "totalAllocated", rs_peak |-> "peakAllocated",
     gt_total |-> "totalAllocated", gp_peak |-> "peakAllocated",
     gb_tags |-> "taggedAllocations", gc_count |-> "allocations",
     ps_total |-> "totalAllocated", ps_peak |-> "peakAllocated",
     ps_count |-> "allocations", ps_tags |-> "taggedAllocations",
     cs_total |-> "totalAllocated", cs_peak |-> "peakAllocated",
     cs_count |-> "allocations", cs_tags |-> "taggedAllocations"]

\* the positions whose step writes its field
WritePositions ==
    {"ra_store", "ra_total", "ra_peak", "ra_tag", "rf_total", "rf_tag",
     "rf_erase", "rs_clearMap", "rs_clearTags", "rs_total", "rs_peak"}

\* what the steps of the threads leave alone
threadFrame == <<trackerFrame, lastCall, before>>
callFrame == <<threadFrame, calls>>

At(t, positions) == thread[t].pc \in positions
\* a thread that is back in its caller keeps nothing of the call
Goto(t, position) ==
    thread' = [thread EXCEPT ![t] = IF position = "idle" THEN IdleThread
                                    ELSE [@ EXCEPT !.pc = position]]
Advance(t) == Goto(t, After[thread[t].pc])
\* the step of a reader: the value read goes into what the call prints or
\* returns; of the two reports the model keeps, while they run, the values
\* of totalAllocated and peakAllocated they have read
Read(t, value) ==
    thread' = [thread EXCEPT
                 ![t] = IF After[@.pc] = "idle" THEN IdleThread
                        ELSE [@ EXCEPT !.pc = After[@],
                                       !.seen = IF Len(@) < 2
                                                THEN Append(@, value)
                                                ELSE @]]

\* the arguments each member function takes; the others are left at the
\* values of IdleThread
TakesMemory == {"recordAllocation", "recordFree"}
TakesSize == {"recordAllocation"}
TakesTag == {"recordAllocation", "getAllocationByTag"}

ThreadCall(t, op, memory, size, tag) ==
    /\ At(t, {"idle"})
    /\ calls < MaxCalls
    /\ calls' = calls + 1
    /\ op \notin TakesMemory => memory = IdleThread.memory
    /\ IF op \in TakesSize THEN size \in Sizes ELSE size = IdleThread.size
    /\ op \notin TakesTag => tag = IdleThread.tag
    /\ op = "recordAllocation" => totalAllocated + size <= MaxTotal
    /\ thread' = [thread EXCEPT ![t] = [pc |-> Entry[op], memory |-> memory,
                                        size |-> size, tag |-> tag,
                                        seen |-> <<>>]]
    /\ UNCHANGED <<threadFrame, allocations, totalAllocated, peakAllocated,
                   taggedAllocations, mutex>>

\* lines 228, 244, 274
ThreadLock(t) ==
    /\ At(t, {"ra_lock", "rf_lock", "rs_lock"})
    /\ mutex = 0
    /\ mutex' = t
    /\ Advance(t)
    /\ UNCHANGED <<callFrame, allocations, totalAllocated, peakAllocated,
                   taggedAllocations>>

\* the end of the scope of the lock_guard (lines 241, 254, 279)
ThreadUnlock(t) ==
    /\ At(t, {"unlock"})
    /\ mutex' = 0
    /\ Goto(t, "idle")
    /\ UNCHANGED <<callFrame, allocations, totalAllocated, peakAllocated,
                   taggedAllocations>>

\* lines 230-231
ThreadStoreInfo(t) ==
    /\ At(t, {"ra_store"})
    /\ allocations' = StoreInfo(allocations, thread[t].memory, thread[t].size,
                                thread[t].tag)
    /\ Advance(t)
    /\ UNCHANGED <<callFrame, totalAllocated, peakAllocated,
                   taggedAllocations, mutex>>

\* line 233
ThreadAddTotal(t) ==
    /\ At(t, {"ra_total"})
    /\ totalAllocated' = DeviceSizeAdd(totalAllocated, thread[t].size)
    /\ Advance(t)
    /\ UNCHANGED <<callFrame, allocations, peakAllocated, taggedAllocations,
                   mutex>>

\* lines 234-236
ThreadUpdatePeak(t) ==
    /\ At(t, {"ra_peak"})
    /\ peakAllocated' = UpdatePeak(totalAllocated, peakAllocated)
    /\ Advance(t)
    /\ UNCHANGED <<callFrame, allocations, totalAllocated, taggedAllocations,
                   mutex>>

\* lines 238-240
ThreadAddTag(t) ==
    /\ At(t, {"ra_tag"})
    /\ taggedAllocations' = AddTag(taggedAllocations, thread[t].tag,
                                   thread[t].size)
    /\ Advance(t)
    /\ UNCHANGED <<callFrame, allocations, totalAllocated, peakAllocated,
                   mutex>>

\* lines 246-247: the branch on the result of find
ThreadFind(t) ==
    /\ At(t, {"rf_find"})
    /\ IF allocations[thread[t].memory].live
       THEN Goto(t, "rf_total")
       ELSE Goto(t, "unlock")
    /\ UNCHANGED <<callFrame, allocations, totalAllocated, peakAllocated,
                   taggedAllocations, mutex>>

\* line 248
ThreadSubTotal(t) ==
    /\ At(t, {"rf_total"})
    /\ totalAllocated' =
          DeviceSizeSub(totalAllocated, allocations[thread[t].memory].size)
    /\ Advance(t)
    /\ UNCHANGED <<callFrame, allocations, peakAllocated, taggedAllocations,
                   mutex>>

\* lines 249-251
ThreadSubTag(t) ==
    /\ At(t, {"rf_tag"})
    /\ taggedAllocations' =
          SubTag(taggedAllocations, allocations[thread[t].memory].tag,
                 allocations[thread[t].memory].size)
    /\ Advance(t)
    /\ UNCHANGED <<callFrame, allocations, totalAllocated, peakAllocated,
                   mutex>>

\* line 252
ThreadErase(t) ==
    /\ At(t, {"rf_erase"})
    /\ allocations' = Erase(allocations, thread[t].memory)
    /\ Advance(t)
    /\ UNCHANGED <<callFrame, totalAllocated, peakAllocated,
                   taggedAllocations, mutex>>

\* line 275
ThreadClearMap(t) ==
    /\ At(t, {"rs_clearMap"})
    /\ allocations' = [h \in Handles |-> NoAllocation]
    /\ Advance(t)
    /\ UNCHANGED <<callFrame, totalAllocated, peakAllocated,
                   taggedAllocations, mutex>>

\* line 276
ThreadClearTags(t) ==
    /\ At(t, {"rs_clearTags"})
    /\ taggedAllocations' = [tag \in Tags \ {""} |-> NoTagEntry]
    /\ Advance(t)
    /\ UNCHANGED <<callFrame, allocations, totalAllocated, peakAllocated,
                   mutex>>

\* line 277
ThreadZeroTotal(t) ==
    /\ At(t, {"rs_total"})
    /\ totalAllocated' = 0
    /\ Advance(t)
    /\ UNCHANGED <<callFrame, allocations, peakAllocated, taggedAllocations,
                   mutex>>

\* line 278
ThreadZeroPeak(t) ==
    /\ At(t, {"rs_peak"})
    /\ peakAllocated' = 0
    /\ Advance(t)
    /\ UNCHANGED <<callFrame, allocations, totalAllocated, taggedAllocations,
                   mutex>>

\* lines 257, 284, 304: no lock is taken
ThreadReadTotal(t) ==
    /\ At(t, {"gt_total", "ps_total", "cs_total"})
    /\ Read(t, getTotalAllocated)
    /\ UNCHANGED <<callFrame, allocations, totalAllocated, peakAllocated,
                   taggedAllocations, mutex>>

\* lines 261, 285, 305: no lock is taken
ThreadReadPeak(t) ==
    /\ At(t, {"gp_peak", "ps_peak", "cs_peak"})
    /\ Read(t, getPeakAllocated)
    /\ UNCHANGED <<callFrame, allocations, totalAllocated, peakAllocated,
                   taggedAllocations, mutex>>

\* lines 270, 286, 306: no lock is taken
ThreadReadCount(t) ==
    /\ At(t, {"gc_count", "ps_count", "cs_count"})
    /\ Read(t, getAllocationCount)
    /\ UNCHANGED <<callFrame, allocations, totalAllocated, peakAllocated,
                   taggedAllocations, mutex>>

\* lines 265-266, 288-295, 308-313: no lock is taken.  getAllocationByTag
\* looks up its argument; the two reports walk the per-tag map in one step,
\* and the model keeps the bytes they find under every tag, added up
ThreadReadTags(t) ==
    /\ At(t, {"gb_tags", "ps_tags", "cs_tags"})
    /\ IF At(t, {"gb_tags"})
       THEN Read(t, getAllocationByTag(thread[t].tag))
       ELSE Read(t, getAllocationByTag("staging"))
    /\ UNCHANGED <<callFrame, allocations, totalAllocated, peakAllocated,
                   taggedAllocations, mutex>>

ThreadNext ==
    \E t \in Threads :
        \/ \E op \in Operations, memory \in Handles, size \in Sizes \cup {0},
              tag \in Tags :
              ThreadCall(t, op, memory, size, tag)
        \/ ThreadLock(t)
        \/ ThreadStoreInfo(t)
        \/ ThreadAddTotal(t)
        \/ ThreadUpdatePeak(t)
        \/ ThreadAddTag(t)
        \/ ThreadFind(t)
        \/ ThreadSubTotal(t)
        \/ ThreadSubTag(t)
        \/ ThreadErase(t)
        \/ ThreadClearMap(t)
        \/ ThreadClearTags(t)
        \/ ThreadZeroTotal(t)
        \/ ThreadZeroPeak(t)
        \/ ThreadUnlock(t)
        \/ ThreadReadTotal(t)
        \/ ThreadReadPeak(t)
        \/ ThreadReadCount(t)
        \/ ThreadReadTags(t)

ThreadSpec == TrackerSpecInit /\ [][ThreadNext]_vars

TypeOK ==
    /\ pc \in {"probe", "createImage", "allocateMemory", "bindImageMemory",
               "createCommandBuffer", "recordDstBarrierIn", "recordSrcBarrierIn",
               "recordTransfer", "recordDstBarrierOut", "recordSrcBarrierOut",
               "flush", "waitFence", "getSubresourceLayout", "mapMemory",
               "openFile", "writeHeader", "swizzle", "rowLoop", "pixelLoop",
               "done", "aborted"}
    /\ result \in {"none", "true", "false"}
    /\ file \in {"closed", "open", "failed"}
    /\ Len(submitted) <= 1
    /\ \A k \in DOMAIN reads : reads[k] + 1 \in DOMAIN dstImageMemory.bytes

(***************************************************************************)
(* Properties.                                                             *)
(***************************************************************************)
\* positions of save from which the call has got past flushCommandBuffer
AfterFlush ==
    {"getSubresourceLayout", "mapMemory", "openFile", "writeHeader", "swizzle",
     "rowLoop", "pixelLoop", "done"}

\* positions of save while the command buffer is being recorded, with the
\* number of commands recorded before each
Recorded ==
    [recordDstBarrierIn |-> 0, recordSrcBarrierIn |-> 1, recordTransfer |-> 2,
     recordDstBarrierOut |-> 3, recordSrcBarrierOut |-> 4, flush |-> 5]

\* the five commands of section 4.3, with transfer op `op`
Sequence43(op) ==
    << [op |-> "barrier", image |-> "dst", srcAccessMask |-> "NONE",
        dstAccessMask |-> "TRANSFER_WRITE", oldLayout |-> "UNDEFINED",
        newLayout |-> "TRANSFER_DST_OPTIMAL", extentW |-> 0, extentH |-> 0],
       [op |-> "barrier", image |-> "src", srcAccessMask |-> "MEMORY_READ",
        dstAccessMask |-> "TRANSFER_READ", oldLayout |-> "PRESENT_SRC_KHR",
        newLayout |-> "TRANSFER_SRC_OPTIMAL", extentW |-> 0, extentH |-> 0],
       [op |-> op, image |-> "src->dst", srcAccessMask |-> "-",
        dstAccessMask |-> "-", oldLayout |-> "TRANSFER_SRC_OPTIMAL",
        newLayout |-> "TRANSFER_DST_OPTIMAL", extentW |-> width,
        extentH |-> height],
       [op |-> "barrier", image |-> "dst", srcAccessMask |-> "TRANSFER_WRITE",
        dstAccessMask |-> "MEMORY_READ", oldLayout |-> "TRANSFER_DST_OPTIMAL",
        newLayout |-> "GENERAL", extentW |-> 0, extentH |-> 0],
       [op |-> "barrier", image |-> "src", srcAccessMask |-> "TRANSFER_READ",
        dstAccessMask |-> "MEMORY_READ", oldLayout |-> "TRANSFER_SRC_OPTIMAL",
        newLayout |-> "PRESENT_SRC_KHR", extentW |-> 0, extentH |-> 0] >>

IsSequence43(cmds) == \E op \in {"blit", "copy"} : cmds = Sequence43(op)
IsPrefix43(cmds, n) ==
    \E op \in {"blit", "copy"} : cmds = SubSeq(Sequence43(op), 1, n)

\* C1: while save records, the command buffer is the first commands of the
\* five-command sequence of section 4.3 (staging barrier in, source barrier
\* in, one transfer of the full rectangle, staging barrier out, source
\* barrier out), in that order; at the flush it is the whole sequence; and
\* once the call is past the flush exactly that sequence, and nothing else,
\* has been submitted, once.
C1_CommandSequence ==
    /\ pc \in DOMAIN Recorded => IsPrefix43(copyCmd, Recorded[pc])
    /\ pc = "flush" => IsSequence43(copyCmd)
    /\ Len(submitted) <= 1
    /\ pc \in AfterFlush \cup {"waitFence"} =>
          /\ Len(submitted) = 1
          /\ IsSequence43(submitted[1])

C1_Witness ==
    /\ pc = "done"
    /\ result = "true"
    /\ Len(submitted) = 1
    /\ submitted[1][3].op = "copy"
    /\ gpuPos = 5

\* C2: whenever save has returned (true, or false after the transfer stage),
\* the source image is in the layout and access state it had before the call:
\* presentable layout, generic memory read.
C2_SourceRestored ==
    result # "none" =>
        /\ srcLayout = "PRESENT_SRC_KHR"
        /\ srcAccess = "MEMORY_READ"

C2_Witness ==
    /\ result = "false"
    /\ gpuPos = 5
    /\ srcLayout = "PRESENT_SRC_KHR"

\* C3: when a call of save has ended, by a return or by a fatal device error,
\* neither the staging image nor the staging memory it created exists.
C3_StagingReleased ==
    pc \in {"done", "aborted"} =>
        /\ ~dstImage.live
        /\ ~dstImageMemory.live

\* C4: a capture that ended on a fatal device error (image creation, memory
\* allocation, binding or submission rejected) has returned false.
C4_FatalErrorReturnsFalse ==
    pc = "aborted" => result = "false"

\* C5: when the output file could not be opened, save has returned false with
\* the staging memory unmapped and freed, the staging image destroyed and
\* nothing written; and save returns false on no other path.
C5_OpenFailure ==
    /\ file = "failed" =>
          /\ pc = "done"
          /\ result = "false"
          /\ ~dstImageMemory.mapped
          /\ ~dstImageMemory.live
          /\ ~dstImage.live
          /\ written = <<>>
    /\ result = "false" => file = "failed"

C5_Witness ==
    /\ file = "failed"
    /\ result = "false"
    /\ gpuPos = 5

\* C6: there is never more than one submission; the device executes commands
\* only while save waits in flushCommandBuffer; and the host has queried the
\* layout, mapped the memory or read a pixel only after exactly one
\* submission that the device has executed to the end and confirmed.
C6_ReadbackAfterCompletion ==
    /\ Len(submitted) <= 1
    /\ (Len(submitted) = 1 /\ ~fence) => pc = "waitFence"
    /\ (\/ pc \in AfterFlush
        \/ dstImageMemory.mapped
        \/ Len(reads) > 0) =>
          /\ Len(submitted) = 1
          /\ gpuPos = Len(submitted[1])
          /\ fence

C6_Witness ==
    /\ pc = "pixelLoop"
    /\ Len(reads) > 0
    /\ fence
    /\ dstImageMemory.mapped

\* the transfer commands among cmds
Transfers(cmds) == SelectSeq(cmds, LAMBDA c : c.op \in {"blit", "copy"})

\* C7: once the transfer is recorded, the command buffer (and later the
\* submission) holds exactly one transfer command; it is the blit if and only
\* if both queries answered yes (blit-source for the source format with
\* optimal tiling, blit-destination for R8G8B8A8_UNORM with linear tiling),
\* and the copy otherwise.
C7_CapabilityDecision ==
    LET both == devBlitSrc /\ devBlitDst
        Decided(cmds) ==
            /\ Len(Transfers(cmds)) = 1
            /\ Transfers(cmds)[1].op = (IF both THEN "blit" ELSE "copy")
    IN  /\ pc # "probe" => (supportsBlit <=> both)
        /\ pc \in {"recordDstBarrierIn", "recordSrcBarrierIn", "recordTransfer"}
              => Len(Transfers(copyCmd)) = 0
        /\ pc \in {"recordDstBarrierOut", "recordSrcBarrierOut", "flush"}
              => Decided(copyCmd)
        /\ \A i \in DOMAIN submitted : Decided(submitted[i])

C7_Witness ==
    /\ devBlitSrc
    /\ ~devBlitDst
    /\ Len(submitted) = 1
    /\ Transfers(submitted[1])[1].op = "copy"

\* the payload: what has been written after the seven items of the header
HeaderLen == 7
Payload ==
    IF Len(written) > HeaderLen THEN SubSeq(written, HeaderLen + 1, Len(written))
    ELSE <<>>

\* the pixels the encode loop has gone through so far
PixelsDone ==
    IF pc = "pixelLoop" THEN y * width + x
    ELSE IF pc = "rowLoop" \/ (pc = "done" /\ result = "true") THEN y * width
    ELSE 0

\* byte c of the texel (yy, xx) in the staging memory, as the device laid the
\* image out
StagingByte(yy, xx, c) ==
    dstImageMemory.bytes[dstImage.offset + yy * dstImage.rowPitch
                         + PixelSize * xx + c + 1]

\* C8: every pixel gone through has put exactly three bytes into the output
\* and none of them is the pixel's 4th byte; and when the source format is
\* one of the BGR formats and the queries do not allow the blit, the three
\* bytes of output pixel (row, col) are bytes 2, 1, 0 of staging pixel
\* (row, col), which are bytes 2, 1, 0 of the raw source pixel.
C8_ChannelOrder ==
    /\ Len(Payload) = 3 * PixelsDone
    /\ Len(reads) = Len(Payload)
    /\ \A k \in DOMAIN reads :
          ((reads[k] - dstImage.offset) % dstImage.rowPitch) % PixelSize # 3
    /\ (srcFormat \in FormatsBGR /\ ~(devBlitSrc /\ devBlitDst)) =>
          \A p \in 0..(PixelsDone - 1) :
             LET yy == p \div width
                 xx == p % width
             IN  \A ch \in 0..2 :
                    /\ Payload[3 * p + ch + 1] = [tag |-> "byte",
                                                   n |-> SrcByte(yy, xx, 2 - ch)]
                    /\ Payload[3 * p + ch + 1].n = StagingByte(yy, xx, 2 - ch)

C8_Witness ==
    /\ result = "true"
    /\ srcFormat = "B8G8R8A8_SRGB"
    /\ ~supportsBlit
    /\ width = 2
    /\ height = 2
    /\ Len(Payload) = 12

\* C9: a capture that has returned true has written the header P6, the
\* requested width, the requested height and 255, in that order, and after it
\* exactly width * height * 3 bytes, the pixels of staging row 0 first, then
\* those of row 1, and so on.
C9_HeaderAndPayload ==
    result = "true" =>
        /\ Len(written) = HeaderLen + width * height * 3
        /\ SubSeq(written, 1, HeaderLen) =
              << [tag |-> "P6\n", n |-> 0], [tag |-> "dec", n |-> width],
                 [tag |-> "\n", n |-> 0], [tag |-> "dec", n |-> height],
                 [tag |-> "\n", n |-> 0], [tag |-> "dec", n |-> 255],
                 [tag |-> "\n", n |-> 0] >>
        /\ \A k \in DOMAIN Payload : Payload[k].tag = "byte"
        /\ \A k \in DOMAIN reads :
              (reads[k] - dstImage.offset) \div dstImage.rowPitch
                 = ((k - 1) \div 3) \div width

C9_Witness ==
    /\ result = "true"
    /\ width = 2
    /\ height = 1
    /\ Len(written) = HeaderLen + 6

\* C10: whatever offset and row stride (>= width * 4) the device reports,
\* the k-th byte of the output is read from staging offset
\* offset + row * stride + 4 * col + channel, where (row, col) is the output
\* pixel the byte belongs to (so each output row is width * 3 bytes), and no
\* byte read lies beyond the first width * 4 bytes of its row.
C10_RowStride ==
    /\ Len(Payload) = Len(reads)
    /\ \A k \in DOMAIN reads :
          LET p == (k - 1) \div 3
              j == (k - 1) % 3
              yy == p \div width
              xx == p % width
              ch == IF colorSwizzle THEN 2 - j ELSE j
          IN  /\ yy < height
              /\ reads[k] = dstImage.offset + yy * dstImage.rowPitch
                            + 4 * xx + ch
              /\ (reads[k] - dstImage.offset) % dstImage.rowPitch < width * 4
              /\ reads[k] >= dstImage.offset

C10_Witness ==
    /\ result = "true"
    /\ dstImage.rowPitch > width * 4
    /\ dstImage.offset > 0
    /\ height = 2
    /\ width = 2
    /\ Len(reads) = 12

\* the payload the accelerated path writes for the frame: the bytes the blit
\* stores for channels 0..2 of each pixel, row by row, written unswizzled
BlitPayload ==
    [k \in 1..(3 * width * height) |->
        LET p == (k - 1) \div 3
        IN  Byte(BlitByte(srcFormat, p \div width, p % width, (k - 1) % 3))]

\* C11: a capture on the raw-copy path that has returned true has written
\* the payload the accelerated path writes for the same frame and format.
C11_FallbackIdentical ==
    (result = "true" /\ ~supportsBlit) => Payload = BlitPayload

\* the accelerated path does write BlitPayload
BlitPayloadIsBlitOutput ==
    (result = "true" /\ supportsBlit) => Payload = BlitPayload

\* the two paths agree on the UNORM formats
FallbackIdenticalUnorm ==
    (result = "true" /\ ~supportsBlit
        /\ srcFormat \in {"B8G8R8A8_UNORM", "R8G8B8A8_UNORM"})
    => Payload = BlitPayload

\* C12: a second call of save with the same request on the unchanged source
\* image starts with the source image in the presentable layout and the
\* state the caller handed to the first call, and when both calls have
\* returned true the second has written, item for item, the file of the first
\* (whatever offset and row stride the device reports in either call).
C12_Idempotent ==
    /\ (capture > 1 /\ pc = "probe") =>
          /\ srcLayout = "PRESENT_SRC_KHR"
          /\ srcAccess = "MEMORY_READ"
          /\ ~gpuLog.srcUndefined
    /\ (capture > 1 /\ result = "true" /\ prevResult = "true") =>
          written = prevWritten

C12_Witness ==
    /\ capture = 2
    /\ result = "true"
    /\ prevResult = "true"
    /\ Len(written) = HeaderLen + 12
    /\ written = prevWritten

\* positions of save at which the swizzle flag has been computed
SwizzleKnown == pc \in {"rowLoop", "pixelLoop"} \/ (pc = "done" /\ result = "true")

\* C14: once computed, the swizzle flag is true exactly when the queries did
\* not allow the blit and the source format is B8G8R8A8_SRGB, B8G8R8A8_UNORM
\* or B8G8R8A8_SNORM; and every pixel is written with its bytes in the order
\* 2, 1, 0 exactly in that case, and in the order 0, 1, 2 otherwise (on the
\* accelerated path whatever the format, and on the fallback path for every
\* other format).
C14_SwizzleFlag ==
    LET fallback == ~(devBlitSrc /\ devBlitDst)
        known == srcFormat \in {"B8G8R8A8_SRGB", "B8G8R8A8_UNORM",
                                "B8G8R8A8_SNORM"}
    IN  /\ SwizzleKnown => (colorSwizzle <=> (fallback /\ known))
        /\ ~SwizzleKnown => ~colorSwizzle
        /\ \A p \in 0..((Len(reads) \div 3) - 1) :
              IF fallback /\ known
              THEN /\ reads[3 * p + 1] = reads[3 * p + 2] + 1
                   /\ reads[3 * p + 2] = reads[3 * p + 3] + 1
              ELSE /\ reads[3 * p + 2] = reads[3 * p + 1] + 1
                   /\ reads[3 * p + 3] = reads[3 * p + 2] + 1

C14_Witness ==
    /\ result = "true"
    /\ devBlitSrc
    /\ devBlitDst
    /\ srcFormat = "B8G8R8A8_UNORM"
    /\ ~colorSwizzle
    /\ Len(reads) = 12

\* C15: with the presentation engine accessing the source image only while
\* it is in the presentable layout, the transfer reads the source image only
\* in TRANSFER_SRC_OPTIMAL and writes the staging image only in
\* TRANSFER_DST_OPTIMAL, never while a presentation access is in progress; the
\* source image is outside the presentable layout only after the second and
\* before the end of the fifth command of the submitted sequence; and a
\* presentation access happens only in the presentable layout.
C15_PresentationExclusion ==
    /\ gpuLog.transfers > 0 =>
          /\ gpuLog.xferSrcLayout = "TRANSFER_SRC_OPTIMAL"
          /\ gpuLog.xferDstLayout = "TRANSFER_DST_OPTIMAL"
          /\ ~gpuLog.xferWhilePresenting
    /\ srcLayout # "PRESENT_SRC_KHR" =>
          /\ Len(submitted) = 1
          /\ gpuPos \in 2..4
    /\ presenting => srcLayout = "PRESENT_SRC_KHR"

C15_Witness ==
    /\ gpuLog.transfers = 1
    /\ presenting
    /\ pc = "done"
    /\ result = "true"

\* C16: as long as the device has not signalled completion, save has not
\* returned and has not started the readback; a call that returned true ran
\* exactly height * width pixel iterations; and once the device has signalled
\* completion, the call eventually returns true or false.
C16_Termination ==
    /\ [](~fence => (result = "none" /\ pc \notin AfterFlush))
    /\ [](result = "true" =>
            (PixelsDone = height * width /\ Len(reads) = 3 * height * width))
    /\ (fence ~> (result \in {"true", "false"}))

C16_Witness ==
    /\ fence
    /\ result = "true"
    /\ width = MaxWidth
    /\ height = MaxHeight
    /\ PixelsDone = MaxWidth * MaxHeight

\* C17: when the caller serializes the captures of one source image that
\* starts in the presentable layout, every barrier the device executes names
\* as old layout the layout its image is in, the transfer runs with the
\* source in TRANSFER_SRC_OPTIMAL and the staging image in
\* TRANSFER_DST_OPTIMAL, and whenever no capture is between submission and
\* return the source image is in PRESENT_SRC_KHR / MEMORY_READ, so the next
\* capture finds it there.  (Without serialization a barrier can name a
\* layout the image is not in: C17_Witness.)
C17_LayoutMatch ==
    serialized =>
        /\ ~gpuLog.mismatch
        /\ gpuLog.transfers > 0 =>
              /\ gpuLog.xferSrcLayout = "TRANSFER_SRC_OPTIMAL"
              /\ gpuLog.xferDstLayout = "TRANSFER_DST_OPTIMAL"
        /\ (\A i \in DOMAIN flight : flight[i].state # "submitted") =>
              /\ srcLayout = "PRESENT_SRC_KHR"
              /\ srcAccess = "MEMORY_READ"
        /\ \A i \in DOMAIN flight :
              flight[i].state = "returned" => flight[i].dstLayout = "GENERAL"

\* two captures in flight without serialization: a barrier has named an old
\* layout its image was not in
C17_Witness ==
    /\ ~serialized
    /\ gpuLog.mismatch
    /\ \A i \in DOMAIN flight : flight[i].state = "returned"

\* the serialized case: every capture has run and returned
SerializedCapturesDone ==
    /\ serialized
    /\ gpuLog.transfers = MaxCaptures
    /\ \A i \in DOMAIN flight : flight[i].state = "returned"

RECURSIVE SumSizes(_, _)
\* the sum of the sizes of the entries of `map` with a handle in S
SumSizes(map, S) ==
    IF S = {} THEN 0
    ELSE LET h == CHOOSE e \in S : TRUE
         IN  (IF map[h].live THEN map[h].size ELSE 0) + SumSizes(map, S \ {h})

\* C18: after any sequence of recordAllocation, recordFree and reset calls,
\* getTotalAllocated is the sum of the sizes of the entries of the
\* live-allocation map, and getAllocationCount is the number of handles
\* recorded and not freed since: the handle of a recordAllocation is counted
\* after it, the handle of a recordFree is not, and no handle is after reset.
C18_TotalIsSum ==
    /\ getTotalAllocated = SumSizes(allocations, Handles)
    /\ getAllocationCount = Cardinality({h \in Handles : allocations[h].live})
    /\ lastCall.op = "recordAllocation" => allocations[lastCall.memory].live
    /\ lastCall.op = "recordFree" => ~allocations[lastCall.memory].live
    /\ lastCall.op = "reset" => getAllocationCount = 0

C20_FreeUnknown ==
    /\ (lastCall.op = "recordFree" /\ ~lastCall.found) =>
          TrackerState = before.state
    /\ (/\ lastCall.op = "recordFree"
        /\ before.call.op = "recordFree"
        /\ before.call.memory = lastCall.memory) =>
          TrackerState = before.state
    /\ totalAllocated <= MaxTotal
    /\ \A tag \in Tags \ {""} : taggedAllocations[tag].bytes <= MaxTotal

\* the same handle freed twice, the first time live and tagged
C20_Witness ==
    /\ lastCall = [op |-> "recordFree", memory |-> MaxHandles, found |-> FALSE]
    /\ before.call = [op |-> "recordFree", memory |-> MaxHandles, found |-> TRUE]
    /\ TrackerState = before.state
    /\ taggedAllocations["staging"].present
    /\ totalAllocated > 0

\* the positions at which the next step of a thread reads or writes a field
\* of the tracker
AccessPositions == DOMAIN Field

\* C13: every step of a MemoryTracker member function that reads or writes a
\* field of the tracker is taken by the thread that holds the mutex; so no
\* write of a field by one thread is pending together with an access to the
\* same field by another, and a reader that has read totalAllocated and then
\* peakAllocated (printSummary, saveToCSV) has seen a pair of values with
\* peak >= total, not a half-applied recordAllocation or reset.
C13_ThreadSafe ==
    /\ \A t \in Threads : At(t, AccessPositions) => mutex = t
    /\ \A t, u \in Threads :
          (/\ t # u
           /\ At(t, WritePositions)
           /\ At(u, AccessPositions)) => Field[thread[t].pc] # Field[thread[u].pc]
    /\ \A t \in Threads :
          Len(thread[t].seen) >= 2 => thread[t].seen[2] >= thread[t].seen[1]

\* the mutators among themselves: a step that writes a field is taken with
\* the mutex held, and two threads are never both inside a mutator
MutatorsExclusive ==
    /\ \A t \in Threads : At(t, WritePositions \cup {"rf_find", "unlock"}) => mutex = t
    /\ \A t, u \in Threads :
          (/\ At(t, WritePositions \cup {"rf_find", "unlock"})
           /\ At(u, WritePositions \cup {"rf_find", "unlock"})) => t = u

\* a reader has seen totalAllocated above peakAllocated
TornRead ==
    \E t \in Threads :
        /\ Len(thread[t].seen) >= 2
        /\ thread[t].seen[1] > thread[t].seen[2]

====
